---- MODULE Spec2Model ----
(***************************************************************************)
(* Roulette strategy simulator (src/main.go): the strategy text typed on   *)
(* the terminal, ParseStrategy's line loop, and SimulateRoulette's spin /  *)
(* bet loop, one step per loop iteration or per debit / settlement.        *)
(*                                                                         *)
(* Text is a sequence of one-character strings, so that TrimSpace,         *)
(* HasPrefix, Split, Atoi and ParseFloat are computed on characters.       *)
(* Money (float64 in the source) is counted in tenths: "2.5" is 25.  The   *)
(* input lines carry plain signed decimals with at most one fractional     *)
(* digit; exponent, hexadecimal, "inf" and "nan" spellings, which          *)
(* strconv.ParseFloat also accepts, are outside the input alphabet, and    *)
(* so are infinities, NaN and rounding.                                    *)
(***************************************************************************)
EXTENDS Integers, Sequences, FiniteSets, TLC

VARIABLES
    typed,          \* the lines typed before "done", ParseStrategy's input
    numGames,       \* the game count the user will type (main, 160)
    pc,             \* position in the program
    lines,          \* ParseStrategy: strings.Split(input, "\n")
    li,             \* ParseStrategy: index of the next line of the range loop
    strategy,       \* ParseStrategy's *Strategy, later SimulateRoulette's argument
    err,            \* ParseStrategy's error result
    bankroll,       \* SimulateRoulette: bankroll
    i,              \* SimulateRoulette: round counter of the outer loop
    j,              \* SimulateRoulette: index of the bet the inner loop is at
    winningNumber,  \* SimulateRoulette: this round's wheel.Spin()
    result,         \* SimulateRoulette's return value (finalBankroll in main)
    spins,          \* history: calls of wheel.Spin() so far
    evals,          \* history: bet turns (affordability checks) so far
    before,         \* history: bankroll when the last completed bet turn began
    placed,         \* history: whether that turn debited the bet
    roundStart,     \* history: bankroll when the current round began
    staked,         \* history: sum of the debits of the current round
    credited        \* history: sum of the payouts of the current round

vars == <<typed, numGames, pc, lines, li, strategy, err, bankroll, i, j,
          winningNumber, result, spins, evals, before, placed, roundStart,
          staked, credited>>

(***************************************************************************)
(* Bounds of the model.                                                    *)
(***************************************************************************)
\* most lines typed, in the parser-centred specification
MaxLines == 3
\* most games asked for, in the parser-centred specification
ParseGames == 1
\* most lines typed, in the simulation-centred specification
MaxSimLines == 3
\* most games asked for, in the simulation-centred specification
MaxGames == 2

(***************************************************************************)
(* Text.                                                                   *)
(***************************************************************************)
NL == "\n"
SP == " "
COMMA == ","

DigitChars == <<"0", "1", "2", "3", "4", "5", "6", "7", "8", "9">>

IsDigit(c) == \E k \in 1..Len(DigitChars) : DigitChars[k] = c

DigitVal(c) == (CHOOSE k \in 1..Len(DigitChars) : DigitChars[k] = c) - 1

\* strings.TrimSpace: leading and trailing white space removed
RECURSIVE TrimLeft(_)
TrimLeft(s) ==
    IF s # <<>> /\ Head(s) = SP THEN TrimLeft(Tail(s)) ELSE s

RECURSIVE TrimRight(_)
TrimRight(s) ==
    IF s # <<>> /\ s[Len(s)] = SP THEN TrimRight(SubSeq(s, 1, Len(s) - 1)) ELSE s

TrimSpace(s) == TrimRight(TrimLeft(s))

\* strings.HasPrefix
HasPrefix(s, p) == Len(s) >= Len(p) /\ SubSeq(s, 1, Len(p)) = p

\* strings.TrimPrefix
TrimPrefix(s, p) == IF HasPrefix(s, p) THEN SubSeq(s, Len(p) + 1, Len(s)) ELSE s

\* strings.Split with a one-character separator: n separators give n+1 pieces
RECURSIVE Split(_, _)
Split(s, sep) ==
    IF \A k \in 1..Len(s) : s[k] # sep
    THEN <<s>>
    ELSE LET k == CHOOSE k \in 1..Len(s) :
                      s[k] = sep /\ \A m \in 1..(k - 1) : s[m] # sep
         IN  <<SubSeq(s, 1, k - 1)>> \o Split(SubSeq(s, k + 1, Len(s)), sep)

\* value of a run of decimal digits
RECURSIVE DigitsVal(_)
DigitsVal(s) ==
    IF s = <<>> THEN 0
    ELSE 10 * DigitsVal(SubSeq(s, 1, Len(s) - 1)) + DigitVal(s[Len(s)])

AllDigits(s) == \A k \in 1..Len(s) : IsDigit(s[k])

HasSign(s) == s # <<>> /\ Head(s) \in {"+", "-"}

Unsigned(s) == IF HasSign(s) THEN Tail(s) ELSE s

Signed(s, n) == IF s # <<>> /\ Head(s) = "-" THEN 0 - n ELSE n

\* strconv.Atoi: an optional sign and at least one decimal digit
Atoi(s) ==
    LET d == Unsigned(s)
    IN  IF d # <<>> /\ AllDigits(d)
        THEN [ok |-> TRUE, val |-> Signed(s, DigitsVal(d))]
        ELSE [ok |-> FALSE, val |-> 0]

\* strconv.ParseFloat(s, 64) on plain decimals: an optional sign, digits with
\* at most one point, at least one digit; the value in tenths
ParseFloat(s) ==
    LET d     == Unsigned(s)
        parts == Split(d, ".")
        whole == parts[1]
        frac  == IF Len(parts) = 2 THEN parts[2] ELSE <<>>
    IN  IF /\ Len(parts) <= 2
           /\ AllDigits(whole)
           /\ AllDigits(frac)
           /\ Len(whole) + Len(frac) >= 1
        THEN [ok  |-> TRUE,
              val |-> Signed(s, 10 * DigitsVal(whole)
                                + (IF frac = <<>> THEN 0 ELSE DigitVal(frac[1])))]
        ELSE [ok |-> FALSE, val |-> 0]

(***************************************************************************)
(* The wheel and the colour tables.                                        *)
(***************************************************************************)
\* make([]int, 38)
WheelSize == 38

\* NewRouletteWheel: pockets 1..36, then 0 and 00 (the literal 00 is 0)
Numbers == [k \in 1..WheelSize |-> IF k <= 36 THEN k ELSE 0]

redNumbers ==
    <<1, 3, 5, 7, 9, 12, 14, 16, 18, 19, 21, 23, 25, 27, 30, 32, 34, 36>>

blackNumbers ==
    <<2, 4, 6, 8, 10, 11, 13, 15, 17, 20, 22, 24, 26, 28, 29, 31, 33, 35>>

\* contains(slice, val)
contains(slice, val) == \E k \in 1..Len(slice) : slice[k] = val

(***************************************************************************)
(* Words of the strategy language.                                         *)
(***************************************************************************)
kwBankroll == <<"b", "a", "n", "k", "r", "o", "l", "l", ":">>
kwBet == <<"b", "e", "t", ":">>
tNumber == <<"n", "u", "m", "b", "e", "r">>
tEven == <<"e", "v", "e", "n">>
tOdd == <<"o", "d", "d">>
tRed == <<"r", "e", "d">>
tBlack == <<"b", "l", "a", "c", "k">>

(***************************************************************************)
(* ParseStrategy.                                                          *)
(***************************************************************************)
\* &Strategy{}: the zero value
ZeroStrategy == [InitialBankroll |-> 0, Bets |-> <<>>]

\* the nil *Strategy returned beside an error
NilStrategy == [nil |-> TRUE]

NoError == "none"

\* a slip of SetBankroll: the first bankroll line wins
SetBankrollFirstWins(s, b) ==
    IF s.InitialBankroll = 0 THEN [s EXCEPT !.InitialBankroll = b] ELSE s

\* strategy.InitialBankroll = bankroll
SetBankroll(s, b) == [s EXCEPT !.InitialBankroll = b]

\* the "bankroll:" branch of the line loop
BankrollLine(s, line) ==
    LET bankrollStr == TrimPrefix(line, kwBankroll)
        f == ParseFloat(TrimSpace(bankrollStr))
    IN  IF ~f.ok
        THEN [err |-> "InvalidBankroll", strategy |-> NilStrategy]
        ELSE [err |-> NoError, strategy |-> SetBankroll(s, f.val)]

\* strategy.Bets = append(strategy.Bets, Bet{...})
AppendBet(bets, bet) == Append(bets, bet)

\* a slip of BetLine: the amount is checked before the value
BetLineAmountFirst(s, line) ==
    LET betStr == TrimPrefix(line, kwBet)
        parts  == Split(betStr, COMMA)
    IN  IF Len(parts) # 3
        THEN [err |-> "MalformedBet", strategy |-> NilStrategy]
        ELSE LET betType == TrimSpace(parts[1])
                 v == Atoi(TrimSpace(parts[2]))
                 a == ParseFloat(TrimSpace(parts[3]))
             IN  IF ~a.ok
                 THEN [err |-> "InvalidBetAmount", strategy |-> NilStrategy]
                 ELSE IF ~v.ok
                 THEN [err |-> "InvalidBetValue", strategy |-> NilStrategy]
                 ELSE [err |-> NoError,
                       strategy |->
                           [s EXCEPT !.Bets =
                               AppendBet(s.Bets, [Type |-> betType,
                                                  Value |-> v.val,
                                                  Amount |-> a.val])]]

\* the "bet:" branch of the line loop
BetLine(s, line) ==
    LET betStr == TrimPrefix(line, kwBet)
        parts  == Split(betStr, COMMA)
    IN  IF Len(parts) # 3
        THEN [err |-> "MalformedBet", strategy |-> NilStrategy]
        ELSE LET betType == TrimSpace(parts[1])
                 v == Atoi(TrimSpace(parts[2]))
                 a == ParseFloat(TrimSpace(parts[3]))
             IN  IF ~v.ok
                 THEN [err |-> "InvalidBetValue", strategy |-> NilStrategy]
                 ELSE IF ~a.ok
                 THEN [err |-> "InvalidBetAmount", strategy |-> NilStrategy]
                 ELSE [err |-> NoError,
                       strategy |->
                           [s EXCEPT !.Bets =
                               AppendBet(s.Bets, [Type |-> betType,
                                                  Value |-> v.val,
                                                  Amount |-> a.val])]]

\* the body of the line loop, on the trimmed line
LineStep(s, line) ==
    IF HasPrefix(line, kwBankroll) THEN BankrollLine(s, line)
    ELSE IF HasPrefix(line, kwBet) THEN BetLine(s, line)
    ELSE [err |-> NoError, strategy |-> s]

\* main: input.WriteString(line + "\n") for every line typed
RECURSIVE InputText(_)
InputText(ls) ==
    IF ls = <<>> THEN <<>> ELSE Head(ls) \o <<NL>> \o InputText(Tail(ls))

(***************************************************************************)
(* SimulateRoulette.                                                       *)
(***************************************************************************)
\* a slip of MoreGames: one round too many
MoreGamesInclusive(k, n) == k <= n

\* the outer loop's condition: i < numGames
MoreGames(k, n) == k < n

\* a slip of CannotAfford: only an empty bankroll stops a bet
CannotAffordWhenBroke(b, amount) == b <= 0

\* if bankroll < bet.Amount { continue }
CannotAfford(b, amount) == b < amount

\* a slip of NumberPayout: 35 to 1 paid on top of a stake already returned
NumberPayoutThirtyFive(bet, w) ==
    IF bet.Value = w THEN bet.Amount * 35 ELSE 0

\* case "number"
NumberPayout(bet, w) == IF bet.Value = w THEN bet.Amount * 36 ELSE 0

\* a slip of EvenWins: zero counted as even
EvenWinsOnZero(w) == w % 2 = 0

\* case "even": winningNumber%2 == 0 && winningNumber != 0
EvenWins(w) == w % 2 = 0 /\ w # 0

\* case "odd": winningNumber%2 != 0 && winningNumber != 0
OddWins(w) == w % 2 # 0 /\ w # 0

\* the switch on bet.Type: what is added to the bankroll
Payout(bet, w) ==
    IF bet.Type = tNumber
    THEN NumberPayout(bet, w)
    ELSE IF bet.Type = tEven
    THEN IF EvenWins(w) THEN bet.Amount * 2 ELSE 0
    ELSE IF bet.Type = tOdd
    THEN IF OddWins(w) THEN bet.Amount * 2 ELSE 0
    ELSE IF bet.Type = tRed
    THEN IF contains(redNumbers, w) THEN bet.Amount * 2 ELSE 0
    ELSE IF bet.Type = tBlack
    THEN IF contains(blackNumbers, w) THEN bet.Amount * 2 ELSE 0
    ELSE 0

\* winningNumber outside a round: the variable is local to the round's body
NoSpin == -1

(***************************************************************************)
(* The lines the specifications type.                                      *)
(***************************************************************************)
BetText(t, v, a) ==
    kwBet \o <<SP>> \o t \o <<COMMA, SP>> \o v \o <<COMMA, SP>> \o a

\* lines for the parser: every branch and every error of the line loop
ParseLines ==
    { <<>>,                                               \* blank
      <<"#", SP, "b", "e", "t">>,                         \* unrecognized
      <<SP>> \o kwBankroll \o <<SP, "1", "0", SP>>,       \* " bankroll: 10 "
      kwBankroll \o <<"-", "2", ".", "5">>,               \* "bankroll:-2.5"
      kwBankroll \o <<SP, "a", "b", "c">>,                \* "bankroll: abc"
      BetText(tRed, <<"0">>, <<"1", "0">>),               \* "bet: red, 0, 10"
      kwBet \o <<"R", "e", "d", COMMA, "0", COMMA, "1", ".", "5">>,
                                                          \* "bet:Red,0,1.5"
      BetText(tNumber, <<"5">>, <<"-", "5">>),            \* "bet: number, 5, -5"
      BetText(tNumber, <<"1">>, <<"2">>) \o <<COMMA, SP, "3">>,
                                                          \* "bet: number, 1, 2, 3"
      kwBet \o <<SP>> \o tRed \o <<COMMA, SP, "x">>,      \* "bet: red, x"
      BetText(tRed, <<"x">>, <<"y">>),                    \* "bet: red, x, y"
      BetText(tRed, <<"1", ".", "5">>, <<"1", "0">>),     \* "bet: red, 1.5, 10"
      BetText(tRed, <<"1">>, <<"y">>) }                   \* "bet: red, 1, y"

\* lines for the simulation: one bankroll, every bet type, a negative amount
SimLines ==
    { kwBankroll \o <<SP, "1", "0">>,                     \* "bankroll: 10"
      BetText(tNumber, <<"5">>, <<"1", "0">>),            \* "bet: number, 5, 10"
      BetText(tNumber, <<"0">>, <<"5">>),                 \* "bet: number, 0, 5"
      BetText(tEven, <<"0">>, <<"5">>),                   \* "bet: even, 0, 5"
      BetText(tOdd, <<"0">>, <<"1", "0">>),               \* "bet: odd, 0, 10"
      BetText(tRed, <<"0">>, <<"1", "0">>),               \* "bet: red, 0, 10"
      BetText(tBlack, <<"0">>, <<"5">>),                  \* "bet: black, 0, 5"
      BetText(tRed, <<"0">>, <<"-", "5">>) }              \* "bet: red, 0, -5"

\* lines for the run to completion: a bankroll and three bets
RunLines ==
    { kwBankroll \o <<SP, "1", "0">>,                     \* "bankroll: 10"
      BetText(tNumber, <<"5">>, <<"1", "0">>),            \* "bet: number, 5, 10"
      BetText(tOdd, <<"0">>, <<"1", "0">>),               \* "bet: odd, 0, 10"
      BetText(tBlack, <<"0">>, <<"5">>) }                 \* "bet: black, 0, 5"

SeqsUpTo(S, n) == UNION { [1..k -> S] : k \in 0..n }

(***************************************************************************)
(* The program: main reads the text and the game count, ParseStrategy      *)
(* walks the lines, SimulateRoulette plays the rounds.                     *)
(***************************************************************************)
\* the state on entry to ParseStrategy's line loop
InitWith(lineSet, maxLines, maxGames) ==
    /\ typed \in SeqsUpTo(lineSet, maxLines)
    /\ numGames \in (-1)..maxGames
    /\ pc = "parse"
    /\ lines = Split(InputText(typed), NL)
    /\ li = 1
    /\ strategy = ZeroStrategy
    /\ err = NoError
    /\ bankroll = 0
    /\ i = 0
    /\ j = 0
    /\ winningNumber = NoSpin
    /\ result = 0
    /\ spins = 0
    /\ evals = 0
    /\ before = 0
    /\ placed = FALSE
    /\ roundStart = 0
    /\ staked = 0
    /\ credited = 0

Init == InitWith(ParseLines, MaxLines, ParseGames)

SimInit == InitWith(SimLines, MaxSimLines, MaxGames)

RunInit == InitWith(RunLines, MaxSimLines, MaxGames)

simVars == <<bankroll, i, j, winningNumber, result, spins, evals, before,
             placed, roundStart, staked, credited>>

\* one iteration of ParseStrategy's line loop; an error returns at once
ParseLine ==
    /\ pc = "parse"
    /\ li <= Len(lines)
    /\ LET r == LineStep(strategy, TrimSpace(lines[li]))
       IN  IF r.err # NoError
           THEN /\ pc' = "failed"
                /\ err' = r.err
                /\ strategy' = NilStrategy
                /\ li' = li
           ELSE /\ pc' = pc
                /\ err' = err
                /\ strategy' = r.strategy
                /\ li' = li + 1
    /\ UNCHANGED <<typed, numGames, lines>>
    /\ UNCHANGED simVars

\* return strategy, nil; main reads the game count and calls SimulateRoulette,
\* which sets bankroll := strategy.InitialBankroll.  The text and its lines are
\* ParseStrategy's argument and local: they are gone once it has returned.
ParseReturn ==
    /\ pc = "parse"
    /\ li > Len(lines)
    /\ pc' = "sim"
    /\ typed' = <<>>
    /\ lines' = <<>>
    /\ li' = 0
    /\ bankroll' = strategy.InitialBankroll
    /\ i' = 0
    /\ before' = strategy.InitialBankroll
    /\ roundStart' = strategy.InitialBankroll
    /\ UNCHANGED <<numGames, strategy, err, j, winningNumber, result, spins,
                   evals, placed, staked, credited>>

\* the head of a round: winningNumber := wheel.Spin()
Spin ==
    /\ pc = "sim"
    /\ MoreGames(i, numGames)
    /\ \E k \in 1..Len(Numbers) : winningNumber' = Numbers[k]
    /\ spins' = spins + 1
    /\ j' = 1
    /\ pc' = "bet"
    /\ before' = bankroll
    /\ placed' = FALSE
    /\ roundStart' = bankroll
    /\ staked' = 0
    /\ credited' = 0
    /\ UNCHANGED <<typed, numGames, lines, li, strategy, err, bankroll, i,
                   result, evals>>

\* a slip of SkipBet: break instead of continue
SkipBetBreaks ==
    /\ pc = "bet"
    /\ j <= Len(strategy.Bets)
    /\ CannotAfford(bankroll, strategy.Bets[j].Amount)
    /\ j' = Len(strategy.Bets) + 1
    /\ evals' = evals + 1
    /\ before' = bankroll
    /\ placed' = FALSE
    /\ UNCHANGED <<typed, numGames, pc, lines, li, strategy, err, bankroll, i,
                   winningNumber, result, spins, roundStart, staked, credited>>

\* the bet at j cannot be afforded: continue
SkipBet ==
    /\ pc = "bet"
    /\ j <= Len(strategy.Bets)
    /\ CannotAfford(bankroll, strategy.Bets[j].Amount)
    /\ j' = j + 1
    /\ evals' = evals + 1
    /\ before' = bankroll
    /\ placed' = FALSE
    /\ UNCHANGED <<typed, numGames, pc, lines, li, strategy, err, bankroll, i,
                   winningNumber, result, spins, roundStart, staked, credited>>

\* the bet at j is placed: bankroll -= bet.Amount
PlaceBet ==
    /\ pc = "bet"
    /\ j <= Len(strategy.Bets)
    /\ ~CannotAfford(bankroll, strategy.Bets[j].Amount)
    /\ bankroll' = bankroll - strategy.Bets[j].Amount
    /\ pc' = "settle"
    /\ evals' = evals + 1
    /\ before' = bankroll
    /\ placed' = TRUE
    /\ staked' = staked + strategy.Bets[j].Amount
    /\ UNCHANGED <<typed, numGames, lines, li, strategy, err, i, j,
                   winningNumber, result, spins, roundStart, credited>>

\* the switch on the placed bet's type
Settle ==
    /\ pc = "settle"
    /\ bankroll' = bankroll + Payout(strategy.Bets[j], winningNumber)
    /\ credited' = credited + Payout(strategy.Bets[j], winningNumber)
    /\ j' = j + 1
    /\ pc' = "bet"
    /\ UNCHANGED <<typed, numGames, lines, li, strategy, err, i,
                   winningNumber, result, spins, evals, before, placed,
                   roundStart, staked>>

\* the bets are exhausted: i++
EndRound ==
    /\ pc = "bet"
    /\ j > Len(strategy.Bets)
    /\ i' = i + 1
    /\ pc' = "sim"
    /\ j' = 0
    /\ winningNumber' = NoSpin
    /\ before' = bankroll
    /\ placed' = FALSE
    /\ roundStart' = bankroll
    /\ staked' = 0
    /\ credited' = 0
    /\ UNCHANGED <<typed, numGames, lines, li, strategy, err, bankroll,
                   result, spins, evals>>

\* return bankroll
Return ==
    /\ pc = "sim"
    /\ ~MoreGames(i, numGames)
    /\ result' = bankroll
    /\ pc' = "done"
    /\ UNCHANGED <<typed, numGames, lines, li, strategy, err, bankroll, i, j,
                   winningNumber, spins, evals, before, placed, roundStart,
                   staked, credited>>

Next ==
    \/ ParseLine
    \/ ParseReturn
    \/ Spin
    \/ SkipBet
    \/ PlaceBet
    \/ Settle
    \/ EndRound
    \/ Return

\* typed text with every parser branch, few games
Spec == Init /\ [][Next]_vars

\* typed text with every bet type, more games
SimSpec == SimInit /\ [][Next]_vars

\* a step of SimulateRoulette
SimStep == Spin \/ SkipBet \/ PlaceBet \/ Settle \/ EndRound \/ Return

\* SimulateRoulette is sequential code that nothing blocks: once called, it
\* keeps taking steps while it has one to take
FairSimSpec == RunInit /\ [][Next]_vars /\ WF_vars(SimStep)

(***************************************************************************)
(* Vocabulary of the properties.                                           *)
(***************************************************************************)
Simulating == pc \in {"sim", "bet", "settle", "done"}

InRound == pc \in {"bet", "settle"}

\* the turn of bet j-1 of this round is complete
TurnDone == pc = "bet" /\ j > 1

LastBet == strategy.Bets[j - 1]

KnownTypes == {tNumber, tEven, tOdd, tRed, tBlack}

ParseDone == pc = "parse" /\ li > Len(lines)

Max0(n) == IF n > 0 THEN n ELSE 0

\* the red and black sets as the specification lists them
RedSet == {1, 3, 5, 7, 9, 12, 14, 16, 18, 19, 21, 23, 25, 27, 30, 32, 34, 36}

BlackSet == {2, 4, 6, 8, 10, 11, 13, 15, 17, 20, 22, 24, 26, 28, 29, 31, 33, 35}

\* the settlement table: net change of the bankroll for a placed bet
TableNet(bet, w) ==
    LET wins ==
            \/ bet.Type = tNumber /\ w = bet.Value
            \/ bet.Type = tEven /\ w \in {2 * n : n \in 1..18}
            \/ bet.Type = tOdd /\ w \in {2 * n - 1 : n \in 1..18}
            \/ bet.Type = tRed /\ w \in RedSet
            \/ bet.Type = tBlack /\ w \in BlackSet
    IN  IF wins
        THEN (IF bet.Type = tNumber THEN 35 ELSE 1) * bet.Amount
        ELSE 0 - bet.Amount

\* whether the code's rule for type t pays on pocket w
RuleMatches(t, w) == Payout([Type |-> t, Value |-> w, Amount |-> 1], w) > 0

\* the pockets of 1..36 on which the code's red rule, black rule pays
RedPockets == {w \in 1..36 : RuleMatches(tRed, w)}

BlackPockets == {w \in 1..36 : RuleMatches(tBlack, w)}

NonNegativeStrategy ==
    /\ strategy.InitialBankroll >= 0
    /\ \A k \in 1..Len(strategy.Bets) : strategy.Bets[k].Amount >= 0

(***************************************************************************)
(* C1.  With an initial bankroll >= 0 and every bet amount >= 0, the       *)
(* bankroll is >= 0 in every state of the simulation: after each debit     *)
(* (pc = "settle") and after each credit.                                  *)
(***************************************************************************)
C1_BankrollNeverNegative ==
    (Simulating /\ NonNegativeStrategy) => bankroll >= 0

\* a bet that takes the whole bankroll has just been debited
C1_Witness ==
    /\ pc = "settle"
    /\ NonNegativeStrategy
    /\ strategy.Bets[j].Amount > 0
    /\ bankroll = 0

(***************************************************************************)
(* C2.  A bet whose type is none of "number", "even", "odd", "red",        *)
(* "black" never alters the bankroll: the bankroll after its turn (and in  *)
(* the middle of it) equals the bankroll before.                           *)
(***************************************************************************)
C2_UnknownTypeIsNoOp ==
    /\ (pc = "settle" /\ strategy.Bets[j].Type \notin KnownTypes)
           => bankroll = before
    /\ (TurnDone /\ LastBet.Type \notin KnownTypes) => bankroll = before

(***************************************************************************)
(* C3.  Every Bet of a Strategy that ParseStrategy builds or returns has   *)
(* an amount >= 0.                                                         *)
(***************************************************************************)
C3_AmountsNonNegative ==
    pc # "failed" =>
        \A k \in 1..Len(strategy.Bets) : strategy.Bets[k].Amount >= 0

(***************************************************************************)
(* C4.  A placed bet of a recognized type changes the bankroll by the      *)
(* settlement table: +35 * amount for a number bet on the winning value,   *)
(* +amount for a winning even / odd / red / black bet, -amount otherwise;  *)
(* the winning value is one of 0..36.                                      *)
(***************************************************************************)
C4_SettlementTable ==
    /\ InRound => winningNumber \in 0..36
    /\ (TurnDone /\ placed /\ LastBet.Type \in KnownTypes)
           => bankroll - before = TableNet(LastBet, winningNumber)

\* a number bet on 0 has won on a zero pocket
C4_Witness ==
    /\ TurnDone
    /\ placed
    /\ LastBet.Type = tNumber
    /\ LastBet.Value = 0
    /\ LastBet.Amount > 0
    /\ winningNumber = 0
    /\ bankroll = before + 35 * LastBet.Amount

(***************************************************************************)
(* C5.  A bet whose amount exceeds the bankroll at its turn is skipped     *)
(* with the bankroll unchanged; a bet equal to the bankroll is placed and  *)
(* the bankroll reaches 0; a skip ends neither the round nor the bet:      *)
(* every bet has its turn in every round.                                  *)
(***************************************************************************)
C5_SkipSemantics ==
    /\ (TurnDone /\ before < LastBet.Amount) => (~placed /\ bankroll = before)
    /\ (TurnDone /\ before >= LastBet.Amount) => placed
    /\ (pc = "settle" /\ before = strategy.Bets[j].Amount) => bankroll = 0
    /\ pc = "bet" => evals = i * Len(strategy.Bets) + (j - 1)
    /\ pc \in {"sim", "done"} => evals = i * Len(strategy.Bets)

\* in a later round a bet has been skipped again and a later bet is pending
C5_Witness ==
    /\ TurnDone
    /\ ~placed
    /\ before < LastBet.Amount
    /\ bankroll = before
    /\ j <= Len(strategy.Bets)
    /\ i >= 1

(***************************************************************************)
(* C6.  No pocket matches both the red and the black rule; a zero pocket   *)
(* matches none of even, odd, red, black, so a placed bet of those types   *)
(* loses its amount on 0; each colour has 18 members and together they     *)
(* are 1..36.                                                              *)
(***************************************************************************)
C6_ColoursAndZero ==
    /\ InRound => ~(RuleMatches(tRed, winningNumber)
                    /\ RuleMatches(tBlack, winningNumber))
    /\ (InRound /\ winningNumber = 0)
           => \A t \in {tEven, tOdd, tRed, tBlack} : ~RuleMatches(t, 0)
    /\ (TurnDone /\ placed /\ winningNumber = 0
            /\ LastBet.Type \in {tEven, tOdd, tRed, tBlack})
           => bankroll = before - LastBet.Amount
    /\ Cardinality(RedPockets) = 18
    /\ Cardinality(BlackPockets) = 18
    /\ RedPockets \cup BlackPockets = 1..36

\* an even bet has been placed and lost on a zero pocket
C6_Witness ==
    /\ TurnDone
    /\ placed
    /\ winningNumber = 0
    /\ LastBet.Type = tEven
    /\ LastBet.Amount > 0
    /\ bankroll = before - LastBet.Amount

(***************************************************************************)
(* What the typed lines are claimed to mean.                               *)
(***************************************************************************)
IsBankrollLine(l) == HasPrefix(TrimSpace(l), kwBankroll)

IsBetLine(l) == ~IsBankrollLine(l) /\ HasPrefix(TrimSpace(l), kwBet)

BankrollField(l) == TrimSpace(TrimPrefix(TrimSpace(l), kwBankroll))

BetFields(l) ==
    LET f == Split(TrimPrefix(TrimSpace(l), kwBet), COMMA)
    IN  [k \in 1..Len(f) |-> TrimSpace(f[k])]

\* the error a single line is claimed to raise: field count, then value,
\* then amount
ClaimedLineError(l) ==
    IF IsBankrollLine(l)
    THEN IF ParseFloat(BankrollField(l)).ok THEN NoError ELSE "InvalidBankroll"
    ELSE IF IsBetLine(l)
    THEN IF Len(BetFields(l)) # 3 THEN "MalformedBet"
         ELSE IF ~Atoi(BetFields(l)[2]).ok THEN "InvalidBetValue"
         ELSE IF ~ParseFloat(BetFields(l)[3]).ok THEN "InvalidBetAmount"
         ELSE NoError
    ELSE NoError

\* the error of the first offending line
ClaimedError(ls) ==
    LET bad == {k \in 1..Len(ls) : ClaimedLineError(ls[k]) # NoError}
    IN  IF bad = {} THEN NoError
        ELSE ClaimedLineError(ls[CHOOSE k \in bad : \A m \in bad : k <= m])

\* the value of the last bankroll line, 0 without one
ClaimedBankroll(ls) ==
    LET at == {k \in 1..Len(ls) : IsBankrollLine(ls[k])}
    IN  IF at = {} THEN 0
        ELSE ParseFloat(
                 BankrollField(ls[CHOOSE k \in at : \A m \in at : k >= m])).val

ClaimedBet(l) ==
    [Type |-> BetFields(l)[1],
     Value |-> Atoi(BetFields(l)[2]).val,
     Amount |-> ParseFloat(BetFields(l)[3]).val]

\* one Bet per bet line, in the order of the lines
ClaimedBets(ls) ==
    LET at == {k \in 1..Len(ls) : IsBetLine(ls[k])}
        nth(n) == CHOOSE k \in at : Cardinality({m \in at : m < k}) = n - 1
    IN  [n \in 1..Cardinality(at) |-> ClaimedBet(ls[nth(n)])]

(***************************************************************************)
(* C7.  A parse error is terminal: ParseStrategy returns the error and no  *)
(* Strategy, whatever the lines before and after; the error is that of     *)
(* the first offending line, a bet line being checked for its field count, *)
(* then its value, then its amount; without an offending line there is no  *)
(* error.                                                                  *)
(***************************************************************************)
C7_FirstErrorIsTerminal ==
    /\ pc = "failed" =>
           /\ strategy = NilStrategy
           /\ err # NoError
           /\ err = ClaimedError(typed)
           /\ ~ENABLED Next
    /\ pc # "failed" => err = NoError
    /\ ParseDone => ClaimedError(typed) = NoError

\* "bet: red, x, y", wrong in value and amount, stopped the parse after a
\* bet had been read and before the last line
C7_Witness ==
    /\ pc = "failed"
    /\ err = "InvalidBetValue"
    /\ li = 2
    /\ Len(typed) = 3
    /\ IsBetLine(typed[1])
    /\ typed[2] = BetText(tRed, <<"x">>, <<"y">>)
    /\ strategy = NilStrategy

(***************************************************************************)
(* C8.  When the line loop ends without error, the strategy holds the      *)
(* value of the last bankroll line (0 without one) and one Bet per bet     *)
(* line, in the order of the lines, the type verbatim; other lines leave   *)
(* no trace.                                                               *)
(***************************************************************************)
C8_ParsedStrategy ==
    ParseDone =>
        strategy = [InitialBankroll |-> ClaimedBankroll(typed),
                    Bets |-> ClaimedBets(typed)]

\* two bankroll lines around a bet line: the second one's -2.5 stands
C8_Witness ==
    /\ ParseDone
    /\ Len(typed) = 3
    /\ IsBankrollLine(typed[1])
    /\ IsBetLine(typed[2])
    /\ IsBankrollLine(typed[3])
    /\ ClaimedBankroll(<<typed[1]>>) = 100
    /\ strategy.InitialBankroll = -25
    /\ Len(strategy.Bets) = 1

(***************************************************************************)
(* C9.  SimulateRoulette ends, after exactly numGames rounds (none when    *)
(* numGames <= 0); the wheel is spun once per round, before the round's    *)
(* bets, which all meet the same pocket, in declaration order; with no     *)
(* round or no bet the result is the initial bankroll.                     *)
(***************************************************************************)
C9_ExactlyNumGamesRounds ==
    /\ [](pc = "done" => (spins = Max0(numGames) /\ i = Max0(numGames)))
    /\ []((pc = "done" /\ (numGames <= 0 \/ strategy.Bets = <<>>))
              => result = strategy.InitialBankroll)
    /\ [](InRound => spins = i + 1)
    /\ [](pc = "sim" => spins = i)
    /\ [][(InRound /\ InRound')
              => (winningNumber' = winningNumber /\ j' \in {j, j + 1})]_vars
    /\ (pc = "sim") ~> (pc = "done")

\* the last of MaxGames rounds is over, with two bets and a changed bankroll
C9_Witness ==
    /\ pc = "done"
    /\ numGames = MaxGames
    /\ spins = MaxGames
    /\ Len(strategy.Bets) >= 2
    /\ result # strategy.InitialBankroll

(***************************************************************************)
(* C10.  The affordability check uses the running bankroll, and the total  *)
(* staked in a round never exceeds the bankroll at the start of the round  *)
(* plus the payouts credited so far in that round.                         *)
(***************************************************************************)
C10_StakedWithinMeans ==
    InRound => staked <= roundStart + credited

\* (i) a bet that the bankroll at the start of the round could not pay has
\* been placed after an earlier payout
C10_PlacedAfterPayout ==
    /\ pc = "settle"
    /\ NonNegativeStrategy
    /\ roundStart < strategy.Bets[j].Amount
    /\ credited > 0

\* (ii) a bet that the bankroll at the start of the round could pay has been
\* skipped after earlier debits
C10_SkippedAfterDebit ==
    /\ TurnDone
    /\ NonNegativeStrategy
    /\ ~placed
    /\ roundStart >= LastBet.Amount

====
